---------------------------- MODULE Spec2Model ----------------------------
(***************************************************************************)
(* Customer churn pipeline: the load script (load_into_sql.py) that        *)
(* normalizes a flat CSV and appends it to four MySQL tables, and the      *)
(* Streamlit dashboard (streamlit_app/app.py) that reads the tables back,  *)
(* left-joins them, filters the joined view and computes the KPIs.         *)
(*                                                                         *)
(* A DataFrame is a sequence of rows; a row is a function from column      *)
(* names to cells.  A cell is a Python str, a number or NaN/None.          *)
(* Amounts are whole numbers.                                              *)
(***************************************************************************)
EXTENDS Integers, Sequences, FiniteSets

VARIABLES
    df,              \* load script: the DataFrame `df` (raw, then normalized)
    nruns,           \* how many times steps 2-4 have been applied to df
    lpc,             \* load script: position ("idle" before the first pass)
    failedAt,        \* the table whose append raised in this pass, or ""
    passes,          \* load passes started so far
    base,            \* the store as it was when the running pass started
    db,              \* the MySQL store: table name -> sequence of rows
    cache,           \* st.cache_data entry of load_data
    openConns,       \* connections opened by load_data and not released
    filters_applied, \* st.session_state.filters_applied
    runs,            \* script runs of the dashboard session so far
    run              \* what the last script run of the session did

vars == <<df, nruns, lpc, failedAt, passes, base, db, cache, openConns,
          filters_applied, runs, run>>

loaderVars == <<lpc, failedAt, passes, base, db>>
dashVars == <<cache, openConns, filters_applied, runs, run>>

-----------------------------------------------------------------------------
(* Bounds *)

MaxLen == 3        \* longest raw TotalCharges text
MaxNormRuns == 2   \* applications of the normalizer to one record set
MaxPasses == 2     \* load passes
MaxSessionPasses == 1  \* load passes ahead of a session that submits filters
MaxRuns == 2       \* script runs of one dashboard session

-----------------------------------------------------------------------------
(* Cells *)

\* A str cell carries its text as a literal (s) or, where the code reads it
\* character by character (TotalCharges), as a character sequence (cs).
Str(s) == [t |-> "str", s |-> s, n |-> 0, cs |-> <<>>]
Txt(cs) == [t |-> "str", s |-> "", n |-> 0, cs |-> cs]
Num(n) == [t |-> "num", s |-> "", n |-> n, cs |-> <<>>]
NaN == [t |-> "nan", s |-> "", n |-> 0, cs |-> <<>>]

IsNaN(c) == c.t = "nan"
IsNum(c) == c.t = "num"

\* col in cols, for a list of column names
InList(col, cols) == \E k \in DOMAIN cols : cols[k] = col

-----------------------------------------------------------------------------
(* load_into_sql.py, steps 2-4: the normalizer *)

bool_cols == <<"Partner", "Dependents", "PhoneService", "PaperlessBilling">>

replace_cols == <<"MultipleLines", "OnlineSecurity", "OnlineBackup",
                  "DeviceProtection", "TechSupport", "StreamingTV",
                  "StreamingMovies">>

\* Series.map({"Yes": 1, "No": 0}): a value that is no key of the dict
\* becomes NaN; nothing is raised.
MapYesNo(c) ==
    IF c = Str("Yes") THEN Num(1) ELSE IF c = Str("No") THEN Num(0) ELSE NaN

\* Series.replace({"No phone service": "No", "No internet service": "No"})
ReplaceNoService(c) ==
    IF c \in {Str("No phone service"), Str("No internet service")}
    THEN Str("No") ELSE c

Digits == {"0", "7"}

DigitValue(ch) == IF ch = "7" THEN 7 ELSE 0

RECURSIVE StripLeft(_)
StripLeft(cs) ==
    IF cs # <<>> /\ Head(cs) = " " THEN StripLeft(Tail(cs)) ELSE cs

RECURSIVE StripRight(_)
StripRight(cs) ==
    IF cs # <<>> /\ cs[Len(cs)] = " "
    THEN StripRight(SubSeq(cs, 1, Len(cs) - 1)) ELSE cs

RECURSIVE DigitsValue(_, _)
DigitsValue(cs, acc) ==
    IF cs = <<>> THEN acc
    ELSE DigitsValue(Tail(cs), 10 * acc + DigitValue(Head(cs)))

\* The number a text parses to, or NaN: surrounding blanks are skipped, then
\* an optional sign and at least one digit must make up the whole text.
ParseNumber(cs) ==
    LET body == StripRight(StripLeft(cs))
        neg == body # <<>> /\ Head(body) = "-"
        ds == IF neg THEN Tail(body) ELSE body
    IN IF ds = <<>> \/ \E i \in DOMAIN ds : ds[i] \notin Digits THEN NaN
       ELSE IF neg THEN Num(0 - DigitsValue(ds, 0))
       ELSE Num(DigitsValue(ds, 0))

\* pd.to_numeric(errors="coerce"): a number stays, a str is parsed, anything
\* unparseable becomes NaN.
ToNumeric(c) ==
    IF IsNum(c) THEN c
    ELSE IF c.t = "str" /\ c.s = "" THEN ParseNumber(c.cs)
    ELSE NaN

FillNa0(c) == IF IsNaN(c) THEN Num(0) ELSE c

CoerceTotalCharges(c) == FillNa0(ToNumeric(c))

\* Step 2: for col in bool_cols: df[col] = df[col].map(...)
MapBoolCols(frame) ==
    [i \in DOMAIN frame |->
        [c \in DOMAIN frame[i] |->
            IF InList(c, bool_cols) THEN MapYesNo(frame[i][c])
            ELSE frame[i][c]]]

\* Step 2: df["SeniorCitizen"] = df["SeniorCitizen"].map(...)
MapSeniorCitizen(frame) ==
    [i \in DOMAIN frame |->
        [frame[i] EXCEPT !["SeniorCitizen"] = MapYesNo(@)]]

\* Step 3: for col in replace_cols: df[col] = df[col].replace(...)
ReplaceCols(frame) ==
    [i \in DOMAIN frame |->
        [c \in DOMAIN frame[i] |->
            IF InList(c, replace_cols) THEN ReplaceNoService(frame[i][c])
            ELSE frame[i][c]]]

\* Step 4: df["TotalCharges"] = pd.to_numeric(...).fillna(0)
FixTotalCharges(frame) ==
    [i \in DOMAIN frame |->
        [frame[i] EXCEPT !["TotalCharges"] = CoerceTotalCharges(@)]]

\* Steps 2, 3 and 4 of the script, in its order.
Normalizer(frame) ==
    FixTotalCharges(ReplaceCols(MapSeniorCitizen(MapBoolCols(frame))))

-----------------------------------------------------------------------------
(* load_into_sql.py, step 5: the split into four tables *)

\* df[[...]].copy() followed by rename(columns=...): `cols` gives, for each
\* column of the table, the column of df it is taken from.
Project(frame, cols) ==
    [i \in DOMAIN frame |-> [c \in DOMAIN cols |-> frame[i][cols[c]]]]

customers_cols ==
    [customer_id |-> "customerID", gender |-> "gender",
     senior_citizen |-> "SeniorCitizen", partner |-> "Partner",
     dependents |-> "Dependents", tenure |-> "tenure"]

services_cols ==
    [customer_id |-> "customerID", phone_service |-> "PhoneService",
     multiple_lines |-> "MultipleLines",
     internet_service |-> "InternetService",
     online_security |-> "OnlineSecurity",
     online_backup |-> "OnlineBackup",
     device_protection |-> "DeviceProtection",
     tech_support |-> "TechSupport", streaming_tv |-> "StreamingTV",
     streaming_movies |-> "StreamingMovies"]

billing_cols ==
    [customer_id |-> "customerID", contract |-> "Contract",
     paperless_billing |-> "PaperlessBilling",
     payment_method |-> "PaymentMethod",
     monthly_charges |-> "MonthlyCharges",
     total_charges |-> "TotalCharges"]

churn_cols == [customer_id |-> "customerID", churn_status |-> "Churn"]

customers_df(frame) == Project(frame, customers_cols)

services_df(frame) == Project(frame, services_cols)

billing_df(frame) == Project(frame, billing_cols)

\* churn_df["churn_date"] = None
churn_df(frame) ==
    [i \in DOMAIN frame |->
        [c \in DOMAIN churn_cols \cup {"churn_date"} |->
            IF c = "churn_date" THEN NaN ELSE frame[i][churn_cols[c]]]]

\* The frame the script appends to each table.
FrameOf(table, frame) ==
    CASE table = "customers" -> customers_df(frame)
      [] table = "services" -> services_df(frame)
      [] table = "billing" -> billing_df(frame)
      [] table = "churn_outcomes" -> churn_df(frame)

-----------------------------------------------------------------------------
(* The CSV *)

\* One row of the flat file, with the columns the script reads.
RawRow(id, gender, senior, yesno, service, tenure, contract, monthly, total, churn) ==
    [customerID |-> Str(id), gender |-> Str(gender),
     SeniorCitizen |-> senior, Partner |-> yesno, Dependents |-> yesno,
     tenure |-> Num(tenure), PhoneService |-> yesno,
     MultipleLines |-> service, InternetService |-> Str("DSL"),
     OnlineSecurity |-> service, OnlineBackup |-> service,
     DeviceProtection |-> service, TechSupport |-> service,
     StreamingTV |-> service, StreamingMovies |-> service,
     Contract |-> Str(contract), PaperlessBilling |-> yesno,
     PaymentMethod |-> Str("Mailed check"),
     MonthlyCharges |-> Num(monthly), TotalCharges |-> total,
     Churn |-> Str(churn)]

\* Raw cells the normalizer is checked on.
BoolRaw == {Str("Yes"), Str("No"), Str("Maybe"), Num(1), NaN}

ServiceRaw == {Str("Yes"), Str("No"), Str("No phone service"),
               Str("No internet service")}

Alphabet == {" ", "-", "0", "7", "x"}

Texts == UNION {[1..n -> Alphabet] : n \in 0..MaxLen}

TotalRaw == {Txt(cs) : cs \in Texts} \cup {Num(7), NaN}

\* One-row files over the raw cells: the normalizer works cell by cell.
NormInputs ==
    {<<RawRow("c1", "Female", senior, yesno, service, 2, "Month-to-month",
              70, total, "Yes")>> :
        senior \in BoolRaw, yesno \in BoolRaw, service \in ServiceRaw,
        total \in TotalRaw}

\* The files a load pass may read.
RowA == RawRow("c1", "Female", Str("No"), Str("Yes"), Str("No phone service"),
               2, "Month-to-month", 70, Txt(<<" ">>), "Yes")

RowB == RawRow("c2", "Male", Str("Yes"), Str("No"), Str("Yes"),
               30, "Two year", 50, Txt(<<"7", "0">>), "No")

Datasets == {<<RowA>>, <<RowB>>}

SessionDatasets == {<<RowA, RowB>>}

-----------------------------------------------------------------------------
(* load_into_sql.py, step 7: the four appends *)

Tables == <<"customers", "services", "billing", "churn_outcomes">>

EmptyDb == [t \in {Tables[i] : i \in DOMAIN Tables} |-> <<>>]

\* Where the script goes after the append to Tables[k] returned.
AfterAppend(k) == IF k < Len(Tables) THEN Tables[k + 1] ELSE "done"

\* What if_exists="replace" would do instead: the table's rows are dropped.
ReplaceRows(rows, frame) == frame

\* DataFrame.to_sql(table, if_exists="append", index=False)
AppendRows(rows, frame) == rows \o frame

\* The script starts: read_csv, steps 2-4, step 5, create_engine.  The two
\* components are used one after the other: the passes come before the
\* dashboard session, which may find the last one unfinished.
StartPass(csv, limit) ==
    /\ runs = 0
    /\ lpc \in {"idle", "done", "aborted"}
    /\ passes < limit
    /\ df' = Normalizer(csv)
    /\ lpc' = Tables[1]
    /\ failedAt' = ""
    /\ passes' = passes + 1
    /\ base' = db
    /\ UNCHANGED <<nruns, db>>
    /\ UNCHANGED dashVars

\* Step 7, the append to Tables[k] returns.
AppendOk(k) ==
    /\ runs = 0
    /\ lpc = Tables[k]
    /\ db' = [db EXCEPT ![Tables[k]] = AppendRows(@, FrameOf(Tables[k], df))]
    /\ lpc' = AfterAppend(k)
    /\ UNCHANGED <<df, nruns, failedAt, passes, base>>
    /\ UNCHANGED dashVars

\* Step 7, the append to Tables[k] raises (store unreachable, constraint
\* violated): nothing catches it, the script ends.
AppendFails(k) ==
    /\ runs = 0
    /\ lpc = Tables[k]
    /\ lpc' = "aborted"
    /\ failedAt' = Tables[k]
    /\ UNCHANGED <<df, nruns, passes, base, db>>
    /\ UNCHANGED dashVars

-----------------------------------------------------------------------------
(* The normalizer applied to a record set, and again to its own output *)

RunNormalizer ==
    /\ nruns < MaxNormRuns
    /\ df' = Normalizer(df)
    /\ nruns' = nruns + 1
    /\ UNCHANGED <<lpc, failedAt, passes, base, db>>
    /\ UNCHANGED dashVars

-----------------------------------------------------------------------------
(* streamlit_app/app.py, load_data: the view reconstructor *)

KeyOf(row) == row["customer_id"]

NonKey(cols) == (DOMAIN cols) \ {"customer_id"}

\* The rows one left row gives: one per right row with its key, in the
\* right frame's order, or one with the right columns null.
JoinRow(l, right, rcols) ==
    LET hits == SelectSeq(right, LAMBDA r : KeyOf(r) = KeyOf(l))
        With(r) == [c \in (DOMAIN l) \cup rcols |->
                       IF c \in DOMAIN l THEN l[c] ELSE r[c]]
        Nulls == [c \in rcols |-> NaN]
    IN IF hits = <<>> THEN <<With(Nulls)>>
       ELSE [k \in DOMAIN hits |-> With(hits[k])]

\* What how="inner" would do instead: left rows without a match are dropped.
RECURSIVE InnerMerge(_, _, _)
InnerMerge(left, right, rcols) ==
    IF left = <<>> THEN <<>>
    ELSE (IF \E k \in DOMAIN right : KeyOf(right[k]) = KeyOf(Head(left))
          THEN JoinRow(Head(left), right, rcols) ELSE <<>>)
         \o InnerMerge(Tail(left), right, rcols)

\* left.merge(right, on="customer_id", how="left")
RECURSIVE Merge(_, _, _)
Merge(left, right, rcols) ==
    IF left = <<>> THEN <<>>
    ELSE JoinRow(Head(left), right, rcols) \o Merge(Tail(left), right, rcols)

\* customers.merge(services).merge(billing).merge(churn)
MergeAll(d) ==
    Merge(Merge(Merge(d["customers"], d["services"], NonKey(services_cols)),
                d["billing"], NonKey(billing_cols)),
          d["churn_outcomes"], NonKey(churn_cols) \cup {"churn_date"})

-----------------------------------------------------------------------------
(* streamlit_app/app.py: the filter form and the filtered view *)

\* df[col].dropna().unique()
Options(frame, col) ==
    {frame[i][col] : i \in DOMAIN frame} \ {NaN}

Values(frame, col) ==
    {frame[i][col].n : i \in {j \in DOMAIN frame : IsNum(frame[j][col])}}

\* df[col].max(): NaN when the column holds no number
ColMax(frame, col) ==
    IF Values(frame, col) = {} THEN NaN
    ELSE Num(CHOOSE v \in Values(frame, col) :
                 \A w \in Values(frame, col) : w <= v)

HighRiskFilterTenure == 6

\* What the form holds when nobody touched it.
DefaultSelection(frame) ==
    [gender |-> Options(frame, "gender"),
     contract |-> Options(frame, "contract"),
     churn |-> Options(frame, "churn_status"),
     tenure |-> <<Num(0), ColMax(frame, "tenure")>>,
     revenue |-> <<Num(0), ColMax(frame, "monthly_charges")>>,
     high_risk |-> FALSE]

\* What the form may hold when it is submitted: every multiselect with all
\* of its options or with some removed, the tenure slider as it was or
\* narrowed, the checkbox either way.
Selections(frame) ==
    [gender : {Options(frame, "gender"), {}},
     contract : {Options(frame, "contract"), {}},
     churn : {Options(frame, "churn_status"), {}, {Str("No")}},
     tenure : {<<Num(0), ColMax(frame, "tenure")>>,
               <<Num(0), Num(HighRiskFilterTenure)>>},
     revenue : {<<Num(0), ColMax(frame, "monthly_charges")>>},
     high_risk : BOOLEAN]

\* Series.isin(values): NaN is in no list of values
IsIn(c, values) == ~IsNaN(c) /\ c \in values

\* Series.between(lo, hi), inclusive: a comparison with NaN is False
Between(c, range) ==
    /\ IsNum(c) /\ IsNum(range[1]) /\ IsNum(range[2])
    /\ range[1].n <= c.n /\ c.n <= range[2].n

Filtered(frame, sel) ==
    LET kept == SelectSeq(frame, LAMBDA r :
                    /\ IsIn(r["gender"], sel.gender)
                    /\ IsIn(r["contract"], sel.contract)
                    /\ IsIn(r["churn_status"], sel.churn)
                    /\ Between(r["tenure"], sel.tenure)
                    /\ Between(r["monthly_charges"], sel.revenue))
    IN IF sel.high_risk
       THEN SelectSeq(kept, LAMBDA r :
                /\ IsNum(r["tenure"]) /\ r["tenure"].n < HighRiskFilterTenure
                /\ r["churn_status"] = Str("Yes"))
       ELSE kept

-----------------------------------------------------------------------------
(* streamlit_app/app.py: the executive summary *)

Frac(n, d) == [n |-> n, d |-> d]

\* What a division by zero leaves instead of a value: the exception.
ZeroDivisionError == Frac(0, 0)

\* a / b of Python
Div(a, b) == IF b = 0 THEN ZeroDivisionError ELSE Frac(a, b)

\* A metric's text: a formatted number, or a literal.
Formatted(q) == [text |-> "number", of |-> q]
Literal(text) == [text |-> text, of |-> Frac(0, 1)]

\* Series.nunique(): NaN is not counted
NUnique(frame, col) == Cardinality(Options(frame, col))

\* Series.sum(): NaN is skipped
RECURSIVE Sum(_, _)
Sum(frame, col) ==
    IF frame = <<>> THEN 0
    ELSE (IF IsNum(Head(frame)[col]) THEN Head(frame)[col].n ELSE 0)
         + Sum(Tail(frame), col)

\* Series.mean(): NaN is skipped, and the mean of nothing is NaN (isna)
Mean(frame, col) ==
    LET n == Len(SelectSeq(frame, LAMBDA r : IsNum(r[col])))
    IN [isna |-> n = 0, q |-> IF n = 0 THEN Frac(0, 1)
                              ELSE Frac(Sum(frame, col), n)]

\* Twice Series.median(), NaN skipped; NaN when the column holds no number.
Median2(frame, col) ==
    LET nums == SelectSeq(frame, LAMBDA r : IsNum(r[col]))
        n == Len(nums)
        Below(i) == Cardinality({j \in 1..n :
                        \/ nums[j][col].n < nums[i][col].n
                        \/ nums[j][col].n = nums[i][col].n /\ j < i})
        At(k) == nums[CHOOSE i \in 1..n : Below(i) = k - 1][col].n
    IN IF n = 0 THEN NaN
       ELSE IF n % 2 = 1 THEN Num(2 * At((n + 1) \div 2))
       ELSE Num(At(n \div 2) + At(n \div 2 + 1))

HighRiskKpiTenure == 3
LoyalTenure == 24
MonthsPerYear == 12

IsChurned(r) == r["churn_status"] = Str("Yes")

\* The delta as it would be without its guard.
PctDeltaUnguarded(count, total) == Formatted(Div(count * 100, total))

\* f"{(count/total*100):.1f}%" if total > 0 else "0%"
PctDelta(count, total) ==
    IF total > 0 THEN Formatted(Div(count * 100, total)) ELSE Literal("0%")

\* (churned_customers / total_customers * 100) if total_customers > 0 else 0
ChurnRate(view) ==
    IF NUnique(view, "customer_id") > 0
    THEN Div(Len(SelectSeq(view, IsChurned)) * 100, NUnique(view, "customer_id"))
    ELSE Frac(0, 1)

\* Lines 110-134: the values and the metric texts.  `all` is the
\* unfiltered frame, whose median the premium count is taken against.
Kpis(view, all) ==
    LET total_customers == NUnique(view, "customer_id")
        churned_customers == Len(SelectSeq(view, IsChurned))
        churn_rate == ChurnRate(view)
        revenue_at_risk ==
            Sum(SelectSeq(view, IsChurned), "monthly_charges") * MonthsPerYear
        high_risk_count ==
            Len(SelectSeq(view, LAMBDA r :
                    /\ IsNum(r["tenure"])
                    /\ r["tenure"].n < HighRiskKpiTenure
                    /\ IsChurned(r)))
        avg_tenure == Mean(view, "tenure")
        median2 == Median2(all, "monthly_charges")
        premium_count ==
            Len(SelectSeq(view, LAMBDA r :
                    /\ IsNum(r["monthly_charges"])
                    /\ IsNum(median2)
                    /\ 2 * r["monthly_charges"].n > median2.n))
        loyal_count ==
            Len(SelectSeq(view, LAMBDA r :
                    /\ IsNum(r["tenure"])
                    /\ r["tenure"].n > LoyalTenure))
    IN [total_customers |-> total_customers,
        churned_customers |-> churned_customers,
        churn_rate |-> churn_rate,
        revenue_at_risk |-> revenue_at_risk,
        high_risk_count |-> high_risk_count,
        premium_count |-> premium_count,
        loyal_count |-> loyal_count,
        avg_tenure_text |->
            IF avg_tenure.isna THEN Literal("N/A")
            ELSE Formatted(avg_tenure.q),
        churn_rate_text |->
            IF total_customers > 0 THEN Formatted(churn_rate)
            ELSE Literal("0%"),
        high_risk_delta |-> PctDelta(high_risk_count, total_customers),
        premium_delta |-> PctDelta(premium_count, total_customers),
        loyal_delta |-> PctDelta(loyal_count, total_customers)]

NoKpis == [total_customers |-> 0]

\* An exception left lines 110-134.
Raised(k) ==
    \/ k.churn_rate = ZeroDivisionError
    \/ \E f \in {"avg_tenure_text", "churn_rate_text", "high_risk_delta",
                 "premium_delta", "loyal_delta"} : k[f].of = ZeroDivisionError

-----------------------------------------------------------------------------
(* streamlit_app/app.py: one script run of the dashboard session *)

\* The cache of load_data before its first return.
NoCache == [filled |-> FALSE, frame |-> <<>>]

NoRun ==
    [outcome |-> "none", apply |-> FALSE, first |-> FALSE, form |-> FALSE,
     shown |-> FALSE, load |-> "none", sel |-> DefaultSelection(<<>>),
     df_filtered |-> <<>>, kpi |-> NoKpis]

\* The calls of load_data that can raise, in its order.
LoadSteps == <<"connect", "read customers", "read services", "read billing",
               "read churn_outcomes", "dispose">>

\* The ways load_data can end.  On a cache hit the stored frame is returned
\* and the body does not run.  Otherwise get_mysql_connection returns a
\* connection or, after a failed attempt, None ("connect": nothing was
\* opened, and the first read raises on None); each of the four reads can
\* raise; conn.dispose() follows them and either returns, releasing the
\* connection, or raises where the connection object has no such method.
\* Whatever is raised reaches the except branch, which reports it and stops
\* the script; nothing there releases the connection.
LoadOutcomes ==
    IF cache.filled
    THEN {[load |-> "hit", returned |-> TRUE, frame |-> cache.frame,
           opened |-> 0, released |-> 0]}
    ELSE {[load |-> LoadSteps[k], returned |-> FALSE, frame |-> <<>>,
           opened |-> IF k = 1 THEN 0 ELSE 1, released |-> 0] :
             k \in DOMAIN LoadSteps}
         \cup {[load |-> "returned", returned |-> TRUE,
                frame |-> MergeAll(db), opened |-> 1, released |-> 1]}

\* The ways the filter form can end: with the submitted or default values
\* in hand (TRUE), or with an exception (FALSE).  int() of the NaN that
\* min() gives on an empty frame raises; a slider given a NaN bound is left
\* to the widget library.
FormOutcomes(frame) ==
    IF frame = <<>> THEN {FALSE}
    ELSE IF ColMax(frame, "tenure") = NaN THEN {FALSE}
    ELSE IF ColMax(frame, "monthly_charges") = NaN THEN {TRUE, FALSE}
    ELSE {TRUE}

\* The test as it would be on the flag alone: a submit renders nothing new.
RendersFlagOnly(apply) == ~filters_applied

\* if apply_filters or not st.session_state.get('filters_applied', False)
Renders(apply) == apply \/ ~filters_applied

\* A script run, from the top of app.py to its end or to the exception or
\* st.stop() that ends it.  `apply` is whether the run was triggered by the
\* form's submit button, which the previous run must have drawn.  The form
\* holds its defaults unless it was submitted.
ScriptRun(apply) ==
    /\ runs < MaxRuns
    /\ apply => run.form
    /\ runs' = runs + 1
    /\ \E o \in LoadOutcomes :
        /\ openConns' = openConns + o.opened - o.released
        /\ cache' = [filled |-> o.returned, frame |-> o.frame]
        /\ IF ~o.returned
           THEN /\ run' = [NoRun EXCEPT !.outcome = "stopped",
                                        !.apply = apply,
                                        !.first = (runs = 0),
                                        !.load = o.load]
                /\ UNCHANGED filters_applied
           ELSE \E formed \in FormOutcomes(o.frame) :
                \E sel \in IF apply /\ formed THEN Selections(o.frame)
                           ELSE {DefaultSelection(o.frame)} :
                LET shown == formed /\ Renders(apply)
                    view == Filtered(o.frame, sel)
                    kpi == Kpis(view, o.frame)
                IN /\ filters_applied' =
                          IF shown THEN TRUE ELSE filters_applied
                   /\ run' = [outcome |->
                                  IF ~formed THEN "error"
                                  ELSE IF ~shown THEN "info"
                                  ELSE IF Raised(kpi) THEN "error"
                                  ELSE "kpis",
                              apply |-> apply,
                              first |-> (runs = 0),
                              form |-> formed,
                              shown |-> shown,
                              load |-> o.load,
                              sel |-> sel,
                              df_filtered |-> IF shown THEN view ELSE <<>>,
                              kpi |-> IF shown THEN kpi ELSE NoKpis]
    /\ UNCHANGED <<df, nruns>>
    /\ UNCHANGED loaderVars

-----------------------------------------------------------------------------
(* Specifications *)

\* The pipeline: load passes, then a dashboard session.
Init ==
    /\ df = <<>>
    /\ nruns = 0
    /\ lpc = "idle"
    /\ failedAt = ""
    /\ passes = 0
    /\ base = EmptyDb
    /\ db = EmptyDb
    /\ cache = NoCache
    /\ openConns = 0
    /\ filters_applied = FALSE
    /\ runs = 0
    /\ run = NoRun

Next ==
    \/ \E csv \in Datasets : StartPass(csv, MaxPasses)
    \/ \E k \in DOMAIN Tables : AppendOk(k)
    \/ \E k \in DOMAIN Tables : AppendFails(k)
    \/ \E apply \in BOOLEAN : ScriptRun(apply)

Spec == Init /\ [][Next]_vars

\* Load passes, then script runs in which the form is never submitted.
NextLoad ==
    \/ \E csv \in Datasets : StartPass(csv, MaxPasses)
    \/ \E k \in DOMAIN Tables : AppendOk(k)
    \/ \E k \in DOMAIN Tables : AppendFails(k)
    \/ ScriptRun(FALSE)

SpecLoad == Init /\ [][NextLoad]_vars

\* A short load, then a session in which the form is submitted.
NextSession ==
    \/ \E csv \in SessionDatasets : StartPass(csv, MaxSessionPasses)
    \/ \E k \in DOMAIN Tables : AppendOk(k)
    \/ \E k \in DOMAIN Tables : AppendFails(k)
    \/ \E apply \in BOOLEAN : ScriptRun(apply)

SpecSession == Init /\ [][NextSession]_vars

\* The normalizer on every raw record set, and on its own output.
InitNorm ==
    /\ df \in NormInputs
    /\ nruns = 0
    /\ lpc = "idle"
    /\ failedAt = ""
    /\ passes = 0
    /\ base = EmptyDb
    /\ db = EmptyDb
    /\ cache = NoCache
    /\ openConns = 0
    /\ filters_applied = FALSE
    /\ runs = 0
    /\ run = NoRun

NextNorm == RunNormalizer

SpecNorm == InitNorm /\ [][NextNorm]_vars

-----------------------------------------------------------------------------
(* Properties of the normalizer (SpecNorm) *)

BoolColumns == {bool_cols[k] : k \in DOMAIN bool_cols} \cup {"SeniorCitizen"}

\* C1: after the normalizer every boolean-coded column (Partner, Dependents,
\* PhoneService, PaperlessBilling, SeniorCitizen) holds 0 or 1 in every row:
\* a raw value other than "Yes" or "No" would have failed the pass, and
\* the model has no normalized row for it.  The script raises nothing in
\* steps 2-4, so a normalized row exists for every input.
C1_BooleanColumnsAreZeroOrOne ==
    nruns = 1 =>
        \A i \in DOMAIN df : \A c \in BoolColumns :
            df[i][c] \in {Num(0), Num(1)}

\* C4: once a record set has been normalized, normalizing it again returns
\* it unchanged.
C4_NormalizerIsIdempotent ==
    [][nruns >= 1 => df' = df]_vars

\* C7: after the coercion every row's total_charges is a number that is not
\* negative, whatever the raw text was.
C7_TotalChargesNonNegative ==
    nruns = 1 =>
        \A i \in DOMAIN df :
            /\ IsNum(df[i]["TotalCharges"])
            /\ df[i]["TotalCharges"].n >= 0

-----------------------------------------------------------------------------
(* Properties of the load pass and of the joined view (SpecLoad) *)

TableNames == {Tables[k] : k \in DOMAIN Tables}

IndexOf(table) == CHOOSE k \in DOMAIN Tables : Tables[k] = table

\* How many appends of the running (or last) pass have returned.
Appended ==
    CASE lpc = "idle" -> 0
      [] lpc = "done" -> Len(Tables)
      [] lpc = "aborted" -> IndexOf(failedAt) - 1
      [] OTHER -> IndexOf(lpc) - 1

\* C3: the pass appends in the order customers, services, billing,
\* churn_outcomes; when the k-th append raises the pass ends there, the
\* first k-1 tables hold all their new rows after the rows they held when
\* the pass started, and the other tables hold exactly the rows they held
\* then: nothing that was in a table before the pass is changed or removed.
C3_AppendsInOrderAndKeepsOldRows ==
    \A k \in DOMAIN Tables :
        db[Tables[k]] =
            IF k <= Appended
            THEN base[Tables[k]] \o FrameOf(Tables[k], df)
            ELSE base[Tables[k]]

\* C3 witness: a second pass whose third append raised, after customers and
\* services took their rows.
C3_Witness ==
    /\ passes = 2
    /\ lpc = "aborted" /\ failedAt = "billing"
    /\ base["customers"] # <<>>
    /\ Len(db["customers"]) > Len(base["customers"])
    /\ db["billing"] = base["billing"]

KeysOf(rows) == {KeyOf(rows[i]) : i \in DOMAIN rows}

RowsOf(rows, key) == {i \in DOMAIN rows : KeyOf(rows[i]) = key}

UniqueKeys(rows) == \A key \in KeysOf(rows) : Cardinality(RowsOf(rows, key)) = 1

\* C2 as claimed: the joined view has exactly one row for every customer_id
\* of the customers table, and as many rows as that table.
C2_OneRowPerCustomer ==
    cache.filled =>
        /\ Len(cache.frame) = Len(db["customers"])
        /\ \A key \in KeysOf(db["customers"]) :
               Cardinality(RowsOf(cache.frame, key)) = 1

\* The rows of the view one customers row gives: one per combination of
\* its services, billing and churn rows, a missing side counting as one.
Matches(table, key) ==
    IF RowsOf(db[table], key) = {} THEN 1
    ELSE Cardinality(RowsOf(db[table], key))

RECURSIVE ViewRows(_)
ViewRows(rows) ==
    IF rows = <<>> THEN 0
    ELSE Matches("services", KeyOf(Head(rows)))
             * Matches("billing", KeyOf(Head(rows)))
             * Matches("churn_outcomes", KeyOf(Head(rows)))
         + ViewRows(Tail(rows))

\* A row of the view carries nulls in the columns of a table that has no
\* row for its customer.
NullWhereMissing(row, table, cols) ==
    KeyOf(row) \notin KeysOf(db[table]) => \A c \in cols : row[c] = NaN

\* C2 as amended: the left-join chain never drops a customer.  Every row
\* of customers appears in the view with its own columns, so the view has
\* at least as many rows as customers; a customer without a services,
\* billing or churn row appears with nulls on that side; and the view has
\* exactly as many rows as customers whenever services, billing and
\* churn_outcomes each hold at most one row per customer_id.  In general
\* each customers row appears once per combination of the services,
\* billing and churn rows of its customer_id, so after a repeated pass the
\* view has more rows than customers.
C2_LeftJoinNeverDrops ==
    cache.filled =>
        /\ \A i \in DOMAIN db["customers"] : \E j \in DOMAIN cache.frame :
               \A c \in DOMAIN customers_cols :
                   cache.frame[j][c] = db["customers"][i][c]
        /\ Len(cache.frame) >= Len(db["customers"])
        /\ Len(cache.frame) = ViewRows(db["customers"])
        /\ \A j \in DOMAIN cache.frame :
               /\ NullWhereMissing(cache.frame[j], "services",
                                   NonKey(services_cols))
               /\ NullWhereMissing(cache.frame[j], "billing",
                                   NonKey(billing_cols))
               /\ NullWhereMissing(cache.frame[j], "churn_outcomes",
                                   NonKey(churn_cols))
        /\ (/\ UniqueKeys(db["services"])
            /\ UniqueKeys(db["billing"])
            /\ UniqueKeys(db["churn_outcomes"]))
               => Len(cache.frame) = Len(db["customers"])

\* C2 witness: load_data returned a view of a store in which a pass stopped
\* short of billing, so a customer appears with a null contract.
C2_Witness ==
    /\ cache.filled
    /\ Len(db["billing"]) < Len(db["customers"])
    /\ \E j \in DOMAIN cache.frame : cache.frame[j]["contract"] = NaN
    /\ Len(cache.frame) = Len(db["customers"])

-----------------------------------------------------------------------------
(* Properties of the dashboard (Spec, SpecSession) *)

\* C5: a run whose form holds its defaults shows the whole joined view as
\* the filtered view, also when customers lack a services, billing or churn
\* row; and a run whose form holds an empty set for one of the three
\* multiselects shows an empty filtered view.  (Stated for the views in
\* which some customer has a monthly charge, where the sliders get numbers
\* for their bounds.)
C5_UntouchedFiltersPassThrough ==
    (run.shown /\ IsNum(ColMax(cache.frame, "monthly_charges"))) =>
        /\ run.sel = DefaultSelection(cache.frame)
               => run.df_filtered = cache.frame
        /\ (run.sel.gender = {} \/ run.sel.contract = {}
                \/ run.sel.churn = {})
               => run.df_filtered = <<>>

\* a = b for quotients with positive denominators
FracEq(a, b) == a.n * b.d = b.n * a.d

\* C6: over a filtered view with rows, churn_rate is 100 times the number
\* of rows with churn_status "Yes" divided by the number of rows, so it
\* lies between 0 and 100, and revenue_at_risk is 12 times the sum of
\* monthly_charges over the rows with churn_status "Yes".
C6_ChurnRateIsShareOfRows ==
    (run.outcome = "kpis" /\ run.df_filtered # <<>>) =>
        /\ FracEq(run.kpi.churn_rate,
                  Frac(100 * Len(SelectSeq(run.df_filtered, IsChurned)),
                       Len(run.df_filtered)))
        /\ 0 <= run.kpi.churn_rate.n
        /\ run.kpi.churn_rate.n <= 100 * run.kpi.churn_rate.d
        /\ run.kpi.revenue_at_risk =
               12 * Sum(SelectSeq(run.df_filtered, IsChurned),
                        "monthly_charges")

\* C8: when load_data has ended, by returning or by stopping the script,
\* no connection it opened is still open.
C8_ConnectionsReleased == openConns = 0

\* C9: when the filtered view has no rows, lines 110-134 raise nothing and
\* give total_customers 0, churn_rate 0 shown as "0%", avg_tenure shown as
\* "N/A", and "0%" for the high-risk, premium and loyal deltas.
C9_EmptyViewGivesNeutralKpis ==
    (run.shown /\ run.df_filtered = <<>>) =>
        /\ run.outcome = "kpis"
        /\ run.kpi.total_customers = 0
        /\ run.kpi.churn_rate = Frac(0, 1)
        /\ run.kpi.churn_rate_text = Literal("0%")
        /\ run.kpi.avg_tenure_text = Literal("N/A")
        /\ run.kpi.high_risk_delta = Literal("0%")
        /\ run.kpi.premium_delta = Literal("0%")
        /\ run.kpi.loyal_delta = Literal("0%")

\* C9 witness: a submitted selection that no row of a joined view with
\* rows satisfies.
C9_Witness ==
    /\ run.shown /\ run.apply
    /\ cache.frame # <<>>
    /\ run.df_filtered = <<>>
    /\ run.outcome = "kpis"

\* C10 as claimed: the first script run sets filters_applied, and a run
\* shows the filtered view and the KPIs exactly when it is the first run of
\* the session or the form was submitted in it.
C10_FirstRunSetsFlag ==
    runs >= 1 =>
        /\ filters_applied
        /\ run.shown <=> (run.first \/ run.apply)

\* C10 as amended: filters_applied starts unset and is never reset; a run
\* that load_data or the form ends early shows nothing and leaves the flag
\* as it was; a run that gets past the form shows the filtered view and the
\* KPIs exactly when the flag was still unset or the form was submitted in
\* that run, sets the flag when it does, and shows only the information
\* message otherwise.  So the flag is set by the first run that gets past
\* the form, which need not be the first run of the session.
C10_FlagSetByFirstRunPastForm ==
    /\ ~filters_applied
    /\ [][/\ filters_applied => filters_applied'
          /\ runs' # runs =>
                 IF run'.form
                 THEN /\ run'.shown <=> (~filters_applied \/ run'.apply)
                      /\ run'.shown => (filters_applied'
                                        /\ run'.outcome = "kpis")
                      /\ ~run'.shown => (run'.outcome = "info"
                                         /\ run'.kpi = NoKpis
                                         /\ run'.df_filtered = <<>>)
                 ELSE /\ run'.outcome \in {"stopped", "error"}
                      /\ ~run'.shown
                      /\ filters_applied' = filters_applied]_vars

\* C10 witness: a rerun without a submit, after the flag was set, shows the
\* information message.
C10_Witness ==
    /\ runs = 2
    /\ ~run.apply /\ run.outcome = "info"
    /\ filters_applied

=============================================================================
